---- MODULE Spec2Model ----
(***************************************************************************)
(* A model of gh-fix-ci/scripts/inspect_pr_checks.py: the CI failure       *)
(* analysis pipeline (schema negotiation, check classification, log        *)
(* resolution) of the PR inspection tool.                                  *)
(*                                                                         *)
(* Representation.  A Python str is a Text: a sequence of chunks, each     *)
(* chunk a TLA+ string standing for that run of characters.  The chunk     *)
(* alphabet is chosen so that no marker the program searches for straddles *)
(* two chunks: a marker occurs in a Text exactly when one of its chunks is *)
(* the marker.  bytes are sequences of byte chunks in the same way.        *)
(* Python's None is the value None below, which is no Text of the model.   *)
(* The output of a command that prints JSON is a document: empty, garbage  *)
(* (not JSON) or a JSON value.                                             *)
(***************************************************************************)
EXTENDS Integers, Sequences, FiniteSets, TLC

VARIABLES
    pc,          \* position of the procedure under analysis
    job_id,      \* fetch_check_log: the job_id argument (None when absent)
    gh_trace,    \* the gh commands the procedure issued, with their results
    log_result,  \* fetch_check_log: the returned (log_text, log_error, status)
    check,       \* is_failing: the check record
    verdict,     \* is_failing: the returned boolean ("none" before the call)
    offer,       \* fetch_checks: what the installed gh advertises on failure
    checks_ret,  \* fetch_checks: the returned list, or Null
    args,        \* main: the parsed command line
    checks,      \* main: what fetch_checks returned
    failing,     \* main: the failing checks, as positions in checks
    ci_results,  \* main: the analyzed checks so far
    results,     \* main: the report, one key per inspected section
    has_issues,  \* main: the flag behind the exit code
    events,      \* main: classifications and gh commands, in order
    exit_code,   \* main: the returned exit code, -1 while running
    pr_env,      \* main: what gh answers about the pull request in this run
    snippet_log, \* extract_failure_snippet: the log text
    snippet_args,\* extract_failure_snippet: --max-lines and --context as given
    snippet      \* extract_failure_snippet: the returned text

logVars == <<job_id, log_result>>
classifyVars == <<check, verdict>>
fieldVars == <<offer, checks_ret>>
mainVars ==
    <<args, checks, failing, ci_results, results, has_issues, events, exit_code, pr_env>>
snippetVars == <<snippet_log, snippet_args, snippet>>

vars == <<pc, gh_trace, logVars, classifyVars, fieldVars, mainVars, snippetVars>>

\* None where a str is expected; Null where a list or a dict is expected.
None == <<"<None>">>
Null == [none |-> TRUE]
NotFetched == [idle |-> TRUE]
NoArgs == [idle |-> TRUE]
EmptyText == <<>>

\* Python truthiness of an optional str: None and "" are false.
Truthy(v) == v # None /\ v # EmptyText

\* Python's `a or b`.
Or(a, b) == IF Truthy(a) THEN a ELSE b

\* dict.get(key): None when the key is missing.
Get(d, key) == IF key \in DOMAIN d THEN d[key] ELSE None

(***************************************************************************)
(* Text primitives: str.strip, str.lower, substring test, bytes.decode.    *)
(***************************************************************************)
IsSpace(c) == c \in {" ", "\n"}

RECURSIVE LStrip(_)
LStrip(s) == IF s # <<>> /\ IsSpace(Head(s)) THEN LStrip(Tail(s)) ELSE s

RECURSIVE RStrip(_)
RStrip(s) ==
    IF s # <<>> /\ IsSpace(s[Len(s)]) THEN RStrip(SubSeq(s, 1, Len(s) - 1)) ELSE s

Strip(s) == RStrip(LStrip(s))

LowerChunk(c) ==
    CASE c = "Still In Progress" -> "still in progress"
      [] c = "LOG WILL BE AVAILABLE WHEN IT IS COMPLETE" ->
             "log will be available when it is complete"
      [] c = "Boom" -> "boom"
      [] c = "Error" -> "error"
      [] c = "FAILURE" -> "failure"
      [] c = "Failure" -> "failure"
      [] c = "ERROR" -> "error"
      [] c = "CANCELLED" -> "cancelled"
      [] c = "TIMED_OUT" -> "timed_out"
      [] c = "ACTION_REQUIRED" -> "action_required"
      [] c = "FAIL" -> "fail"
      [] c = "SUCCESS" -> "success"
      [] c = "PK" -> "pk"
      [] OTHER -> c

Lower(s) == [i \in DOMAIN s |-> LowerChunk(s[i])]

\* `marker in text` for a marker that is one chunk.
Contains(text, marker) == \E i \in DOMAIN text : text[i] = marker

Range(f) == { f[i] : i \in DOMAIN f }

\* The first index of chunk c in s, 0 when there is none.
IndexOf(s, c) ==
    IF \E i \in DOMAIN s : s[i] = c
    THEN CHOOSE i \in DOMAIN s : s[i] = c /\ \A j \in 1..(i - 1) : s[j] # c
    ELSE 0

\* str.splitlines: the lines of a text, without their line ends.
RECURSIVE SplitLines(_)
SplitLines(s) ==
    IF s = <<>> THEN <<>>
    ELSE LET i == IndexOf(s, "\n")
         IN  IF i = 0 THEN <<s>>
             ELSE <<SubSeq(s, 1, i - 1)>> \o SplitLines(SubSeq(s, i + 1, Len(s)))

\* "\n".join(filter(None, [a, b]))
JoinNonEmpty(a, b) ==
    IF a = EmptyText THEN b
    ELSE IF b = EmptyText THEN a
    ELSE a \o <<"\n">> \o b

\* bytes.decode(errors="replace"): ASCII bytes decode to themselves, a byte
\* that is no valid UTF-8 becomes U+FFFD.
DecodeChunk(b) == IF b = "\\xff" THEN "\\ufffd" ELSE b

Decode(bytes) == [i \in DOMAIN bytes |-> DecodeChunk(bytes[i])]

(***************************************************************************)
(* Program constants.                                                      *)
(***************************************************************************)
PENDING_LOG_MARKERS ==
    {"still in progress", "log will be available when it is complete"}

(***************************************************************************)
(* JSON documents printed by gh.                                           *)
(***************************************************************************)
EmptyDoc == [kind |-> "empty"]
GarbageDoc == [kind |-> "garbage"]
JsonDoc(v) == [kind |-> "json", value |-> v]

JSONDecodeError == [kind |-> "JSONDecodeError"]

\* json.loads(stdout or default)
json_loads(doc, default) ==
    CASE doc.kind = "empty" -> default
      [] doc.kind = "garbage" -> JSONDecodeError
      [] OTHER -> doc.value

GhResult(rc, out, err) == [returncode |-> rc, stdout |-> out, stderr |-> err]

Call(cmd, argv, result) == [cmd |-> cmd, args |-> argv, result |-> result]

(***************************************************************************)
(* Log Resolver.                                                           *)
(***************************************************************************)
is_log_pending_message(message) ==
    LET lowered == Lower(message)
    IN  \E marker \in PENDING_LOG_MARKERS : Contains(lowered, marker)

is_zip_payload_firstbyte(payload) == Len(payload) >= 1 /\ payload[1] = "P"

is_zip_payload_swapped(payload) ==
    Len(payload) >= 2 /\ payload[1] = "K" /\ payload[2] = "P"

\* payload.startswith(b"PK")
is_zip_payload(payload) ==
    Len(payload) >= 2 /\ payload[1] = "P" /\ payload[2] = "K"

\* fetch_repo_slug on the result of `gh repo view --json nameWithOwner`.
fetch_repo_slug(result) ==
    IF result.returncode # 0 THEN None
    ELSE LET data == json_loads(result.stdout, <<>>)
         IN  IF data = JSONDecodeError THEN None
             ELSE LET name_with_owner == Get(data, "nameWithOwner")
                  IN  IF ~Truthy(name_with_owner) THEN None ELSE name_with_owner

fetch_run_log_stripped(result) ==
    IF result.returncode # 0
    THEN LET error == Strip(Or(result.stderr, Or(result.stdout, EmptyText)))
         IN  <<EmptyText, Or(error, <<"gh run view failed">>)>>
    ELSE <<Strip(result.stdout), EmptyText>>

\* fetch_run_log on the result of `gh run view <run_id> --log`:
\* the pair (log_text, log_error).
fetch_run_log(result) ==
    IF result.returncode # 0
    THEN LET error == Strip(Or(result.stderr, Or(result.stdout, EmptyText)))
         IN  <<EmptyText, Or(error, <<"gh run view failed">>)>>
    ELSE <<result.stdout, EmptyText>>

\* fetch_job_log: env.repo_view and env.job_log are what gh answers if asked.
\* ret is the pair (job_log, job_error), trace the commands issued.
fetch_job_log(jid, env) ==
    LET repo_slug == fetch_repo_slug(env.repo_view)
        slugCall == Call("repo view", <<>>, env.repo_view)
        raw == env.job_log
        apiCall == Call("api job logs", <<repo_slug, jid>>, raw)
    IN  IF ~Truthy(repo_slug)
        THEN [ret |-> <<EmptyText,
                        <<"Error: unable to resolve repository name for job logs.">>>>,
              trace |-> <<slugCall>>]
        ELSE IF raw.returncode # 0
        THEN LET message == Strip(Or(raw.stderr, Decode(raw.stdout)))
             IN  [ret |-> <<EmptyText, Or(message, <<"gh api job logs failed">>)>>,
                  trace |-> <<slugCall, apiCall>>]
        ELSE IF is_zip_payload(raw.stdout)
        THEN [ret |-> <<EmptyText,
                        <<"Job logs returned a ", "zip archive", "; unable to parse.">>>>,
              trace |-> <<slugCall, apiCall>>]
        ELSE [ret |-> <<Decode(raw.stdout), EmptyText>>,
              trace |-> <<slugCall, apiCall>>]

\* fetch_check_log, lines 671-678: the job-level fallback, given the run-level
\* reason and what fetch_job_log returned.
fetch_check_log_job_lostreason(log_error, job_log, job_error) ==
    IF Truthy(job_log) THEN <<job_log, EmptyText, "ok">>
    ELSE IF Truthy(job_error) /\ is_log_pending_message(job_error)
    THEN <<EmptyText, job_error, "pending">>
    ELSE IF Truthy(job_error) THEN <<EmptyText, job_error, "error">>
    ELSE <<EmptyText, job_error, "pending">>

fetch_check_log_job_runreason(log_error, job_log, job_error) ==
    IF Truthy(job_log) THEN <<job_log, EmptyText, "ok">>
    ELSE IF Truthy(job_error) /\ is_log_pending_message(job_error)
    THEN <<EmptyText, log_error, "pending">>
    ELSE IF Truthy(job_error) THEN <<EmptyText, log_error, "error">>
    ELSE <<EmptyText, log_error, "pending">>

fetch_check_log_job(log_error, job_log, job_error) ==
    IF Truthy(job_log) THEN <<job_log, EmptyText, "ok">>
    ELSE IF Truthy(job_error) /\ is_log_pending_message(job_error)
    THEN <<EmptyText, job_error, "pending">>
    ELSE IF Truthy(job_error) THEN <<EmptyText, job_error, "error">>
    ELSE <<EmptyText, log_error, "pending">>

\* fetch_check_log, lines 680-683: the run-level failure without a job fetch.
fetch_check_log_nojob_error(log_error) == <<EmptyText, log_error, "error">>

fetch_check_log_nojob(log_error) ==
    IF is_log_pending_message(log_error)
    THEN <<EmptyText, log_error, "pending">>
    ELSE <<EmptyText, log_error, "error">>

\* fetch_check_log: ret is the triple (log_text, log_error, log_status),
\* trace the gh commands issued, in order.
fetch_check_log_anyerror(rid, jid, env) ==
    LET run == fetch_run_log(env.run_log)
        runCall == Call("run view --log", <<rid>>, env.run_log)
    IN  IF ~Truthy(run[2])
        THEN [ret |-> <<run[1], EmptyText, "ok">>, trace |-> <<runCall>>]
        ELSE IF Truthy(jid)
        THEN LET job == fetch_job_log(jid, env)
             IN  [ret |-> fetch_check_log_job(run[2], job.ret[1], job.ret[2]),
                  trace |-> <<runCall>> \o job.trace]
        ELSE [ret |-> fetch_check_log_nojob(run[2]), trace |-> <<runCall>>]

fetch_check_log(rid, jid, env) ==
    LET run == fetch_run_log(env.run_log)
        log_text == run[1]
        log_error == run[2]
        runCall == Call("run view --log", <<rid>>, env.run_log)
    IN  IF ~Truthy(log_error)
        THEN [ret |-> <<log_text, EmptyText, "ok">>, trace |-> <<runCall>>]
        ELSE IF is_log_pending_message(log_error) /\ Truthy(jid)
        THEN LET job == fetch_job_log(jid, env)
             IN  [ret |-> fetch_check_log_job(log_error, job.ret[1], job.ret[2]),
                  trace |-> <<runCall>> \o job.trace]
        ELSE [ret |-> fetch_check_log_nojob(log_error), trace |-> <<runCall>>]

(***************************************************************************)
(* What gh may answer.                                                     *)
(***************************************************************************)
ReturnCodes == {0, 1}

\* Texts gh prints for a log command (stdout or stderr).
LogTexts ==
    { EmptyText,
      <<" ", "\n">>,
      <<"boom">>,
      <<" ", "Boom", "\n">>,
      <<"run", " ", "Still In Progress", "\n">>,
      <<"LOG WILL BE AVAILABLE WHEN IT IS COMPLETE">> }

\* Payloads of the job log endpoint.
LogPayloads ==
    { <<>>,
      <<"P", "K", "\\x03\\x04">>,
      <<"P">>,
      <<"K", "P">>,
      <<"boom", "\n", "\\xff">>,
      <<" ", "still in progress">> }

RunLogResults == { GhResult(rc, out, err) : rc \in ReturnCodes, out \in LogTexts, err \in LogTexts }

\* `gh repo view --json nameWithOwner` prints a JSON object, or fails.
RepoViewResults ==
    { GhResult(1, EmptyText, <<"boom">>),
      GhResult(0, GarbageDoc, EmptyText),
      GhResult(0, EmptyDoc, EmptyText),
      GhResult(0, JsonDoc([nameWithOwner |-> EmptyText]), EmptyText),
      GhResult(0, JsonDoc([nameWithOwner |-> <<"owner/repo">>]), EmptyText) }

JobLogResults ==
    { GhResult(rc, out, err) : rc \in ReturnCodes, out \in LogPayloads, err \in LogTexts }

LogEnvs == [run_log : RunLogResults, repo_view : RepoViewResults, job_log : JobLogResults]

JobIds == {None, <<"7">>}

NoResult == <<EmptyText, EmptyText, "none">>

\* No failed listing yet.
NoOffer == [marker |-> FALSE, fields |-> <<>>, style |-> "none"]

\* The variables of a procedure that is not under analysis keep these values.
IdleLog == job_id = None /\ log_result = NoResult
IdleClassify == check = None /\ verdict = "none"
IdleFields == offer = NoOffer /\ checks_ret = NotFetched
IdleSnippet == snippet_log = None /\ snippet_args = NoArgs /\ snippet = None
IdleMain ==
    /\ args = NoArgs
    /\ checks = NotFetched
    /\ failing = <<>>
    /\ ci_results = <<>>
    /\ results = <<>>
    /\ has_issues = FALSE
    /\ events = <<>>
    /\ exit_code = -1
    /\ pr_env = NoArgs

(***************************************************************************)
(* The log resolver on its own: one resolution per behaviour.              *)
(***************************************************************************)
InitLog ==
    /\ pc = "log_start"
    /\ job_id \in JobIds
    /\ gh_trace = <<>>
    /\ log_result = NoResult
    /\ IdleClassify
    /\ IdleFields
    /\ IdleMain
    /\ IdleSnippet

ResolveLog ==
    /\ pc = "log_start"
    /\ \E env \in LogEnvs :
         LET r == fetch_check_log(<<"42">>, job_id, env)
         IN  /\ gh_trace' = r.trace
             /\ log_result' = r.ret
    /\ pc' = "log_done"
    /\ UNCHANGED <<job_id, classifyVars, fieldVars, mainVars, snippetVars>>

NextLog == ResolveLog

SpecLog == InitLog /\ [][NextLog]_vars

(***************************************************************************)
(* Check Classifier.                                                       *)
(***************************************************************************)
FAILURE_CONCLUSIONS == {<<"failure">>, <<"cancelled">>, <<"timed_out">>, <<"action_required">>}

FAILURE_STATES ==
    {<<"failure">>, <<"error">>, <<"cancelled">>, <<"timed_out">>, <<"action_required">>}

FAILURE_BUCKETS == {<<"fail">>}

normalize_field_nolower(value) == IF value = None THEN EmptyText ELSE Strip(value)

normalize_field(value) == IF value = None THEN EmptyText ELSE Lower(Strip(value))

is_failing(c) ==
    LET conclusion == normalize_field(Get(c, "conclusion"))
    IN  IF conclusion \in FAILURE_CONCLUSIONS THEN TRUE
        ELSE LET state == normalize_field(Or(Get(c, "state"), Get(c, "status")))
             IN  IF state \in FAILURE_STATES THEN TRUE
                 ELSE LET bucket == normalize_field(Get(c, "bucket"))
                      IN  bucket \in FAILURE_BUCKETS

\* The values a status field of a check record may hold (None is JSON null).
FieldValues ==
    { None,
      EmptyText,
      <<" ">>,
      <<"success">>,
      <<" ", "Failure", "\n">>,
      <<"error">>,
      <<"CANCELLED">>,
      <<"timed_out">>,
      <<"action_required">>,
      <<"fail">> }

StatusKeys == {"conclusion", "state", "status", "bucket"}

\* Check records: any of the status fields may be missing.
StatusRecords == UNION { [keys -> FieldValues] : keys \in SUBSET StatusKeys }

InitClassify ==
    /\ pc = "classify_start"
    /\ check \in StatusRecords
    /\ verdict = "none"
    /\ gh_trace = <<>>
    /\ IdleLog
    /\ IdleFields
    /\ IdleMain
    /\ IdleSnippet

Classify ==
    /\ pc = "classify_start"
    /\ verdict' = is_failing(check)
    /\ pc' = "classify_done"
    /\ UNCHANGED <<check, gh_trace, logVars, fieldVars, mainVars, snippetVars>>

NextClassify == Classify

SpecClassify == InitClassify /\ [][NextClassify]_vars

(***************************************************************************)
(* Schema Negotiator.                                                      *)
(***************************************************************************)
primary_fields ==
    << <<"name">>, <<"state">>, <<"conclusion">>, <<"detailsUrl">>,
       <<"startedAt">>, <<"completedAt">> >>

fallback_fields ==
    << <<"name">>, <<"state">>, <<"bucket">>, <<"link">>,
       <<"startedAt">>, <<"completedAt">>, <<"workflow">> >>

\* parse_available_fields, lines 719-728: the loop over the lines, with the
\* `collecting` flag and the fields gathered so far.
RECURSIVE collect_fields(_, _, _)
collect_fields(lines, collecting, fields) ==
    IF lines = <<>> THEN fields
    ELSE LET line == Head(lines)
             field == Strip(line)
         IN  IF Contains(line, "Available fields:")
             THEN collect_fields(Tail(lines), TRUE, fields)
             ELSE IF ~collecting THEN collect_fields(Tail(lines), collecting, fields)
             ELSE IF field = EmptyText THEN collect_fields(Tail(lines), collecting, fields)
             ELSE collect_fields(Tail(lines), collecting, Append(fields, field))

parse_available_fields(message) ==
    IF ~Contains(message, "Available fields:") THEN <<>>
    ELSE collect_fields(SplitLines(message), FALSE, <<>>)

select_fields_whole_fallback(available_fields) == fallback_fields

select_fields_advertised_order(available_fields) ==
    SelectSeq(available_fields, LAMBDA field : field \in Range(fallback_fields))

\* fetch_checks, lines 520-529: the fallback fields the installed gh offers.
select_fields(available_fields) ==
    SelectSeq(fallback_fields, LAMBDA field : field \in Range(available_fields))

JsonList(items) == [list |-> items]

\* isinstance(data, list)
IsList(data) == "list" \in DOMAIN data

\* fetch_checks, lines 544-552: the checks of a successful listing, a list
\* (JsonList) or Null.
parse_checks(result) ==
    LET data == json_loads(result.stdout, JsonList(<<>>))
    IN  IF data = JSONDecodeError THEN Null
        ELSE IF ~IsList(data) THEN Null
        ELSE data

fetch_checks_retry_again(env) ==
    LET primaryCall == Call("pr checks", primary_fields, env.primary)
        available_fields ==
            parse_available_fields(Strip(JoinNonEmpty(env.primary.stderr, env.primary.stdout)))
        retryCall == Call("pr checks", select_fields(available_fields), env.retry)
    IN  IF env.primary.returncode = 0
        THEN [ret |-> parse_checks(env.primary), trace |-> <<primaryCall>>]
        ELSE IF select_fields(available_fields) = <<>>
        THEN [ret |-> Null, trace |-> <<primaryCall>>]
        ELSE IF env.retry.returncode # 0
        THEN [ret |-> Null, trace |-> <<primaryCall, retryCall, retryCall>>]
        ELSE [ret |-> parse_checks(env.retry), trace |-> <<primaryCall, retryCall>>]

\* fetch_checks: env.primary and env.retry are what gh answers to the listing
\* with the primary fields and, if asked, with the negotiated fields.
fetch_checks(env) ==
    LET primaryCall == Call("pr checks", primary_fields, env.primary)
    IN  IF env.primary.returncode # 0
        THEN LET message == Strip(JoinNonEmpty(env.primary.stderr, env.primary.stdout))
                 available_fields == parse_available_fields(message)
                 selected_fields == select_fields(available_fields)
                 retryCall == Call("pr checks", selected_fields, env.retry)
             IN  IF available_fields # <<>>
                 THEN IF selected_fields = <<>>
                      THEN [ret |-> Null, trace |-> <<primaryCall>>]
                      ELSE IF env.retry.returncode # 0
                      THEN [ret |-> Null, trace |-> <<primaryCall, retryCall>>]
                      ELSE [ret |-> parse_checks(env.retry),
                            trace |-> <<primaryCall, retryCall>>]
                 ELSE [ret |-> Null, trace |-> <<primaryCall>>]
        ELSE [ret |-> parse_checks(env.primary), trace |-> <<primaryCall>>]

\* The field names an installed gh may advertise for `pr checks --json`.
AdvertisedNames ==
    { <<"bucket">>, <<"completedAt">>, <<"description">>, <<"event">>, <<"link">>,
      <<"name">>, <<"startedAt">>, <<"state">>, <<"workflow">> }

MaxAdvertised == 3

AdvertisedLists == UNION { [1..n -> AdvertisedNames] : n \in 0..MaxAdvertised }

\* How gh lays the list out: indented, one name per line; or flush left with
\* blank lines between the names and no final line end.
RECURSIVE FieldLines(_, _)
FieldLines(fields, style) ==
    IF fields = <<>> THEN <<>>
    ELSE IF style = "indented"
    THEN <<" ", " ">> \o Head(fields) \o <<"\n">> \o FieldLines(Tail(fields), style)
    ELSE <<"\n">> \o Head(fields) \o FieldLines(Tail(fields), style)

\* The error gh prints for an unknown JSON field.
UnknownFieldMessage(fields, style) ==
    IF style = "indented"
    THEN <<"Unknown JSON field: ", "conclusion", "\n", "Available fields:", "\n">>
             \o FieldLines(fields, style)
    ELSE <<" ", "Available fields:">> \o FieldLines(fields, style)

Offers ==
    { [marker |-> TRUE, fields |-> f, style |-> st] :
          f \in AdvertisedLists, st \in {"indented", "spaced"} }
    \cup { [marker |-> FALSE, fields |-> <<>>, style |-> st] : st \in {"boom", "silent"} }

\* The primary listing fails with what the offer says.
FailedListing(o) ==
    IF o.marker THEN GhResult(1, EmptyText, UnknownFieldMessage(o.fields, o.style))
    ELSE IF o.style = "boom" THEN GhResult(1, <<"boom">>, EmptyText)
    ELSE GhResult(1, EmptyText, <<" ", "\n">>)

\* Check records gh may list.
SomeChecks ==
    << [name |-> <<"build">>, state |-> <<"FAILURE">>, bucket |-> <<"fail">>],
       [name |-> <<"lint">>, state |-> <<"SUCCESS">>, bucket |-> <<"pass">>] >>

ListingResults ==
    { GhResult(0, EmptyDoc, EmptyText),
      GhResult(0, GarbageDoc, EmptyText),
      GhResult(0, JsonDoc([message |-> <<"Not Found">>]), EmptyText),
      GhResult(0, JsonDoc(JsonList(<<>>)), EmptyText),
      GhResult(0, JsonDoc(JsonList(SomeChecks)), EmptyText),
      GhResult(1, EmptyText, <<"boom">>) }

InitFields ==
    /\ pc = "fields_start"
    /\ offer = NoOffer
    /\ checks_ret = NotFetched
    /\ gh_trace = <<>>
    /\ IdleLog
    /\ IdleClassify
    /\ IdleMain
    /\ IdleSnippet

\* fetch_checks when the primary listing fails.
NegotiateFields ==
    /\ pc = "fields_start"
    /\ \E o \in Offers, retry \in ListingResults :
         LET r == fetch_checks([primary |-> FailedListing(o), retry |-> retry])
         IN  /\ offer' = o
             /\ checks_ret' = r.ret
             /\ gh_trace' = r.trace
    /\ pc' = "fields_done"
    /\ UNCHANGED <<logVars, classifyVars, mainVars, snippetVars>>

\* fetch_checks when the primary listing succeeds.
ListChecks ==
    /\ pc = "fields_start"
    /\ \E primary \in { l \in ListingResults : l.returncode = 0 } :
         LET r == fetch_checks([primary |-> primary, retry |-> primary])
         IN  /\ checks_ret' = r.ret
             /\ gh_trace' = r.trace
    /\ pc' = "fields_done"
    /\ UNCHANGED <<offer, logVars, classifyVars, mainVars, snippetVars>>

NextFields == NegotiateFields \/ ListChecks

SpecFields == InitFields /\ [][NextFields]_vars

(***************************************************************************)
(* Snippet Extractor.                                                      *)
(***************************************************************************)
FAILURE_MARKERS ==
    {"error", "fail", "failed", "traceback", "exception", "assert", "panic",
     "fatal", "timeout", "segmentation fault"}

\* "\n".join(lines)
RECURSIVE JoinLines(_)
JoinLines(lines) ==
    IF lines = <<>> THEN EmptyText
    ELSE IF Len(lines) = 1 THEN lines[1]
    ELSE lines[1] \o <<"\n">> \o JoinLines(Tail(lines))

\* lines[start:end] for 0 <= start, end <= len(lines)
Slice(lines, start, end) == SubSeq(lines, start + 1, end)

\* lines[-n:]
LastLines(lines, n) ==
    IF n > 0 THEN Slice(lines, IF Len(lines) > n THEN Len(lines) - n ELSE 0, Len(lines))
    ELSE Slice(lines, IF -n < Len(lines) THEN -n ELSE Len(lines), Len(lines))

Max(a, b) == IF a >= b THEN a ELSE b
Min(a, b) == IF a <= b THEN a ELSE b

find_failure_index_first(lines) ==
    LET hits == { idx \in 0..(Len(lines) - 1) :
                    \E marker \in FAILURE_MARKERS : Contains(Lower(lines[idx + 1]), marker) }
    IN  IF hits = {} THEN -1
        ELSE CHOOSE idx \in hits : \A other \in hits : idx <= other

\* find_failure_index: the 0-based index of the last line holding a marker,
\* -1 for None.
find_failure_index(lines) ==
    LET hits == { idx \in 0..(Len(lines) - 1) :
                    \E marker \in FAILURE_MARKERS : Contains(Lower(lines[idx + 1]), marker) }
    IN  IF hits = {} THEN -1
        ELSE CHOOSE idx \in hits : \A other \in hits : other <= idx

extract_failure_snippet(log_text, max_lines, context) ==
    LET lines == SplitLines(log_text)
        marker_index == find_failure_index(lines)
        start == Max(0, marker_index - context)
        end == Min(Len(lines), marker_index + context)
        window == Slice(lines, start, end)
    IN  IF lines = <<>> THEN EmptyText
        ELSE IF marker_index = -1 THEN JoinLines(LastLines(lines, max_lines))
        ELSE IF Len(window) > max_lines THEN JoinLines(LastLines(window, max_lines))
        ELSE JoinLines(window)

tail_lines(text, max_lines) ==
    IF max_lines <= 0 THEN EmptyText
    ELSE JoinLines(LastLines(SplitLines(text), max_lines))

MaxLogLines == 4
MaxSnippetArg == 3

\* Lines a log may hold: plain output, an empty line, lines with a marker in
\* upper, mixed and lower case.
LogLineSamples ==
    { <<"step">>, <<>>, <<"Error", ": build failed">>, <<"tests ", "FAILED">> }

\* The text of a log: its lines, each ended by a line end, the last one
\* possibly not.
RECURSIVE LogTextOf(_, _)
LogTextOf(lines, ended) ==
    IF lines = <<>> THEN EmptyText
    ELSE IF Len(lines) = 1 THEN Head(lines) \o (IF ended THEN <<"\n">> ELSE <<>>)
    ELSE Head(lines) \o <<"\n">> \o LogTextOf(Tail(lines), ended)

LogSamples ==
    { LogTextOf(lines, ended) :
          lines \in UNION { [1..n -> LogLineSamples] : n \in 0..MaxLogLines },
          ended \in BOOLEAN }

SnippetArgSamples == [max_lines : 0..MaxSnippetArg, context : 0..MaxSnippetArg]

InitSnippet ==
    /\ pc = "snippet_start"
    /\ snippet_log \in LogSamples
    /\ snippet_args \in SnippetArgSamples
    /\ snippet = None
    /\ gh_trace = <<>>
    /\ IdleLog
    /\ IdleClassify
    /\ IdleFields
    /\ IdleMain

\* extract_failure_snippet as analyze_check calls it (line 605), with the
\* limits main passes (lines 189-190).
ExtractSnippet ==
    /\ pc = "snippet_start"
    /\ snippet' = extract_failure_snippet(snippet_log,
                                          Max(1, snippet_args.max_lines),
                                          Max(1, snippet_args.context))
    /\ pc' = "snippet_done"
    /\ UNCHANGED <<snippet_log, snippet_args, gh_trace,
                   logVars, classifyVars, fieldVars, mainVars>>

NextSnippet == ExtractSnippet

SpecSnippet == InitSnippet /\ [][NextSnippet]_vars

(***************************************************************************)
(* analyze_check.                                                          *)
(***************************************************************************)
\* Chunks that are a run of decimal digits (never two in a row in a URL).
DigitChunks == {"42", "43", "44", "7", "8"}

\* The first position of a URL from which the chunks match pat, where "\\d+"
\* stands for a digit chunk and the first chunk may be any of pat[1]; 0 if none.
MatchAt(url, pat, i) ==
    /\ i + Len(pat) - 1 <= Len(url)
    /\ \A k \in DOMAIN pat :
           IF pat[k] = {"\\d+"} THEN url[i + k - 1] \in DigitChunks
           ELSE url[i + k - 1] \in pat[k]

Search(url, pat) ==
    LET hits == { i \in DOMAIN url : MatchAt(url, pat, i) }
    IN  IF hits = {} THEN 0 ELSE CHOOSE i \in hits : \A j \in hits : i <= j

extract_run_id(url) ==
    LET first == Search(url, << {"/actions/runs/"}, {"\\d+"} >>)
        \* "/runs/(\d+)" also matches at the end of "/actions/runs/"
        second == Search(url, << {"/actions/runs/", "/runs/"}, {"\\d+"} >>)
    IN  IF ~Truthy(url) THEN None
        ELSE IF first # 0 THEN <<url[first + 1]>>
        ELSE IF second # 0 THEN <<url[second + 1]>>
        ELSE None

extract_job_id(url) ==
    LET first == Search(url, << {"/actions/runs/"}, {"\\d+"}, {"/job/"}, {"\\d+"} >>)
        second == Search(url, << {"/job/"}, {"\\d+"} >>)
    IN  IF ~Truthy(url) THEN None
        ELSE IF first # 0 THEN <<url[first + 3]>>
        ELSE IF second # 0 THEN <<url[second + 1]>>
        ELSE None

\* fetch_run_metadata on the result of `gh run view <run_id> --json ...`.
fetch_run_metadata(result) ==
    IF result.returncode # 0 THEN Null
    ELSE LET data == json_loads(result.stdout, <<>>)
         IN  IF data = JSONDecodeError THEN Null
             ELSE IF IsList(data) THEN Null
             ELSE data

\* Python truthiness of an optional dict.
TruthyDict(d) == d # Null /\ DOMAIN d # {}

\* analyze_check: ret is the record built for the check, trace the gh commands
\* issued.  env holds what gh answers to each of them if asked.
analyze_check(c, env, max_lines, context) ==
    LET url == Or(Get(c, "detailsUrl"), Or(Get(c, "link"), EmptyText))
        run_id == extract_run_id(url)
        jid == extract_job_id(url)
        base == [name |-> IF "name" \in DOMAIN c THEN c["name"] ELSE EmptyText,
                 detailsUrl |-> url,
                 runId |-> run_id,
                 jobId |-> jid]
        metadata == fetch_run_metadata(env.metadata)
        metaCall == Call("run view --json", <<run_id>>, env.metadata)
        log == fetch_check_log(run_id, jid, env)
        log_text == log.ret[1]
        log_error == log.ret[2]
        log_status == log.ret[3]
        run == IF TruthyDict(metadata) THEN [run |-> metadata] ELSE <<>>
        trace == <<metaCall>> \o log.trace
    IN  IF run_id = None
        THEN [ret |-> [status |-> "external",
                       note |-> <<"No GitHub Actions run id detected in detailsUrl.">>]
                      @@ base,
              trace |-> <<>>]
        ELSE IF log_status = "pending"
        THEN [ret |-> [status |-> "log_pending",
                       note |-> Or(log_error, <<"Logs are not available yet.">>)]
                      @@ run @@ base,
              trace |-> trace]
        ELSE IF Truthy(log_error)
        THEN [ret |-> [status |-> "log_unavailable", error |-> log_error] @@ run @@ base,
              trace |-> trace]
        ELSE [ret |-> [status |-> "ok",
                       run |-> IF TruthyDict(metadata) THEN metadata ELSE <<>>,
                       logSnippet |-> extract_failure_snippet(log_text, max_lines, context),
                       logTail |-> tail_lines(log_text, max_lines)]
                      @@ base,
              trace |-> trace]

(***************************************************************************)
(* Conflicts, change requests, review threads.                             *)
(***************************************************************************)
JsonBool(b) == [bool |-> b]
JsonStr(text) == [str |-> text]

\* json.loads failed
IsDecodeError(data) == "kind" \in DOMAIN data

\* d.get(key, {}) on a parsed object
Dig(d, key) == IF key \in DOMAIN d THEN d[key] ELSE <<>>

\* d.get(key, default) for a str value
GetOr(d, key, default) == IF key \in DOMAIN d THEN d[key] ELSE default

\* check_conflicts on the result of `gh pr view --json mergeable,...`.
check_conflicts(result) ==
    IF result.returncode # 0
    THEN [error |-> <<"Failed to fetch merge state">>, hasConflicts |-> FALSE]
    ELSE LET data == json_loads(result.stdout, <<>>)
             mergeable_raw == IF "mergeable" \in DOMAIN data THEN data["mergeable"] ELSE Null
             merge_state_status == GetOr(data, "mergeStateStatus", <<"UNKNOWN">>)
             by_mergeable ==
                 IF "bool" \in DOMAIN mergeable_raw THEN ~mergeable_raw.bool
                 ELSE IF "str" \in DOMAIN mergeable_raw
                 THEN mergeable_raw.str = <<"CONFLICTING">>
                 ELSE FALSE
             mergeable_display ==
                 IF "bool" \in DOMAIN mergeable_raw
                 THEN IF ~mergeable_raw.bool THEN <<"CONFLICTING">> ELSE <<"MERGEABLE">>
                 ELSE IF "str" \in DOMAIN mergeable_raw THEN mergeable_raw.str
                 ELSE <<"UNKNOWN">>
         IN  IF IsDecodeError(data)
             THEN [error |-> <<"Failed to parse merge state JSON">>, hasConflicts |-> FALSE]
             ELSE [hasConflicts |-> IF merge_state_status = <<"DIRTY">> THEN TRUE
                                    ELSE by_mergeable,
                   mergeable |-> mergeable_display,
                   mergeStateStatus |-> merge_state_status,
                   baseRefName |-> GetOr(data, "baseRefName", EmptyText),
                   headRefName |-> GetOr(data, "headRefName", EmptyText)]

conflict_flag_or_error(conflict_result) ==
    "error" \in DOMAIN conflict_result \/ conflict_result.hasConflicts

\* line 152: conflict_result.get("hasConflicts")
conflict_flag(conflict_result) ==
    IF "hasConflicts" \in DOMAIN conflict_result THEN conflict_result.hasConflicts
    ELSE FALSE

\* lines 354-363: the entry of one review that requests changes.
change_request(review) ==
    [id |-> GetOr(review, "id", None),
     reviewer |-> GetOr(Dig(review, "user"), "login", <<"unknown">>),
     body |-> GetOr(review, "body", EmptyText),
     submittedAt |-> GetOr(review, "submitted_at", EmptyText),
     htmlUrl |-> GetOr(review, "html_url", EmptyText)]

RECURSIVE change_requests_of(_)
change_requests_of(reviews) ==
    IF reviews = <<>> THEN <<>>
    ELSE IF Get(Head(reviews), "state") = <<"CHANGES_REQUESTED">>
    THEN <<change_request(Head(reviews))>> \o change_requests_of(Tail(reviews))
    ELSE change_requests_of(Tail(reviews))

\* fetch_change_requests: env.repo_view and env.reviews are what gh answers.
fetch_change_requests(env) ==
    LET repo_slug == fetch_repo_slug(env.repo_view)
        slugCall == Call("repo view", <<>>, env.repo_view)
        apiCall == Call("api reviews", <<repo_slug>>, env.reviews)
        reviews == json_loads(env.reviews.stdout, JsonList(<<>>))
    IN  IF ~Truthy(repo_slug) THEN [ret |-> <<>>, trace |-> <<slugCall>>]
        ELSE IF env.reviews.returncode # 0
        THEN [ret |-> <<>>, trace |-> <<slugCall, apiCall>>]
        ELSE IF IsDecodeError(reviews) \/ ~IsList(reviews)
        THEN [ret |-> <<>>, trace |-> <<slugCall, apiCall>>]
        ELSE [ret |-> change_requests_of(reviews.list), trace |-> <<slugCall, apiCall>>]

\* parse_repo_owner_name: the slug split at "/" has exactly two parts.
parse_repo_owner_name(repo_slug) ==
    LET slashes == { i \in DOMAIN repo_slug : repo_slug[i] = "/" }
    IN  IF Cardinality(slashes) # 1 THEN Null
        ELSE LET i == CHOOSE j \in slashes : TRUE
             IN  [owner |-> SubSeq(repo_slug, 1, i - 1),
                  repo |-> SubSeq(repo_slug, i + 1, Len(repo_slug))]

\* lines 439-445: the comments of a thread as reported.
formatted_comment(comment) ==
    [author |-> GetOr(Dig(comment, "author"), "login", <<"unknown">>),
     body |-> GetOr(comment, "body", EmptyText),
     createdAt |-> GetOr(comment, "createdAt", EmptyText)]

\* lines 446-452: the entry of one unresolved thread.
unresolved_thread(thread) ==
    LET comments == IF "nodes" \in DOMAIN Dig(thread, "comments")
                    THEN thread.comments.nodes ELSE <<>>
    IN  [id |-> GetOr(thread, "id", None),
         path |-> GetOr(thread, "path", EmptyText),
         line |-> GetOr(thread, "line", None),
         isOutdated |-> IF "isOutdated" \in DOMAIN thread THEN thread.isOutdated ELSE FALSE,
         comments |-> [k \in DOMAIN comments |-> formatted_comment(comments[k])]]

RECURSIVE unresolved_of(_)
unresolved_of(threads) ==
    IF threads = <<>> THEN <<>>
    ELSE IF "isResolved" \in DOMAIN Head(threads) /\ Head(threads).isResolved
    THEN unresolved_of(Tail(threads))
    ELSE <<unresolved_thread(Head(threads))>> \o unresolved_of(Tail(threads))

\* fetch_unresolved_threads: env.repo_view and env.threads are what gh answers.
fetch_unresolved_threads(env) ==
    LET repo_slug == fetch_repo_slug(env.repo_view)
        slugCall == Call("repo view", <<>>, env.repo_view)
        parsed == parse_repo_owner_name(repo_slug)
        apiCall == Call("api graphql reviewThreads", <<parsed>>, env.threads)
        data == json_loads(env.threads.stdout, <<>>)
        reviewThreads ==
            Dig(Dig(Dig(Dig(data, "data"), "repository"), "pullRequest"), "reviewThreads")
        threads == IF "nodes" \in DOMAIN reviewThreads THEN reviewThreads.nodes ELSE <<>>
    IN  IF ~Truthy(repo_slug) THEN [ret |-> <<>>, trace |-> <<slugCall>>]
        ELSE IF parsed = Null THEN [ret |-> <<>>, trace |-> <<slugCall>>]
        ELSE IF env.threads.returncode # 0
        THEN [ret |-> <<>>, trace |-> <<slugCall, apiCall>>]
        ELSE IF IsDecodeError(data) THEN [ret |-> <<>>, trace |-> <<slugCall, apiCall>>]
        ELSE [ret |-> unresolved_of(threads), trace |-> <<slugCall, apiCall>>]

\* resolve_thread on the result of the resolveReviewThread mutation.
resolve_thread(result) ==
    IF result.returncode # 0 THEN FALSE
    ELSE LET data == json_loads(result.stdout, <<>>)
             thread == Dig(Dig(Dig(data, "data"), "resolveReviewThread"), "thread")
         IN  IF IsDecodeError(data) THEN FALSE
             ELSE IF "isResolved" \in DOMAIN thread THEN thread.isResolved ELSE FALSE

(***************************************************************************)
(* main, lines 144-206: the sections of a run.                             *)
(***************************************************************************)
MaxChecks == 2

\* Check records gh may list: a failed job of a workflow run, a passing check,
\* a failing check of another CI system, a failed run without a job.
CheckSamples ==
    { [name |-> <<"build">>, conclusion |-> <<"FAILURE">>,
       detailsUrl |-> <<"https://github.com/o/r", "/actions/runs/", "42", "/job/", "7">>],
      [name |-> <<"lint">>, state |-> <<"SUCCESS">>, bucket |-> <<"pass">>,
       link |-> <<"https://github.com/o/r", "/runs/", "43">>],
      [name |-> <<"deploy">>, bucket |-> <<"fail">>,
       link |-> <<"https://ci.example.com/build", "/job/", "8">>],
      [name |-> <<"test">>, state |-> EmptyText, status |-> <<"timed_out">>,
       detailsUrl |-> <<"https://github.com/o/r", "/actions/runs/", "44">>] }

CheckLists == UNION { [1..n -> CheckSamples] : n \in 0..MaxChecks }

\* What the failed primary listing of a run may advertise: fields of the
\* fallback list, none of them, nothing after the marker, or no marker at all.
NegotiableOffer ==
    [marker |-> TRUE, fields |-> << <<"name">>, <<"bucket">>, <<"link">> >>,
     style |-> "indented"]

MainOffers ==
    { NegotiableOffer,
      [marker |-> TRUE, fields |-> << <<"description">>, <<"event">> >>,
       style |-> "indented"],
      [marker |-> TRUE, fields |-> <<>>, style |-> "spaced"],
      [marker |-> FALSE, fields |-> <<>>, style |-> "boom"] }

\* What gh answers to the two listings of a run; offer is what the primary
\* answer advertises when it is a failure.
MainListingEnvs ==
    { [offer |-> NoOffer,
       primary |-> GhResult(0, JsonDoc(JsonList(l)), EmptyText),
       retry |-> GhResult(1, EmptyText, EmptyText)] : l \in CheckLists }
    \cup
    { [offer |-> o,
       primary |-> FailedListing(o),
       retry |-> GhResult(0, JsonDoc(JsonList(l)), EmptyText)] :
          o \in {NegotiableOffer}, l \in CheckLists }
    \cup
    { [offer |-> o,
       primary |-> FailedListing(o),
       retry |-> r] :
          o \in MainOffers,
          r \in { GhResult(1, EmptyText, <<"boom">>),
                  GhResult(0, JsonDoc(JsonList(<<>>)), EmptyText) } }
    \cup
    { [offer |-> NoOffer,
       primary |-> GhResult(0, GarbageDoc, EmptyText),
       retry |-> GhResult(1, EmptyText, <<"boom">>)] }

\* What gh answers to the commands of one analyze_check.
MainLogText == <<"step", "\n", "Error", ": build failed", "\n", "more context", "\n">>

RepoViewOk == GhResult(0, JsonDoc([nameWithOwner |-> <<"owner", "/", "repo">>]), EmptyText)

MetadataOk ==
    GhResult(0, JsonDoc([conclusion |-> <<"failure">>, workflowName |-> <<"CI">>]), EmptyText)

RunLogPending == GhResult(1, EmptyText, <<"run", " ", "Still In Progress", "\n">>)

Failed == GhResult(1, EmptyText, <<"boom">>)

\* The run log is there; it failed for good; it is pending and the job log
\* is there, is a zip archive, is pending too, or the repository is unknown.
MainAnalyzeEnvs ==
    { [metadata |-> MetadataOk, run_log |-> GhResult(0, MainLogText, EmptyText),
       repo_view |-> RepoViewOk, job_log |-> Failed],
      [metadata |-> MetadataOk, run_log |-> Failed,
       repo_view |-> RepoViewOk, job_log |-> Failed],
      [metadata |-> Failed, run_log |-> RunLogPending,
       repo_view |-> RepoViewOk,
       job_log |-> GhResult(0, <<"Error", ": build failed", "\n">>, EmptyText)],
      [metadata |-> MetadataOk, run_log |-> RunLogPending,
       repo_view |-> RepoViewOk,
       job_log |-> GhResult(0, <<"P", "K", "\\x03\\x04">>, EmptyText)],
      [metadata |-> MetadataOk, run_log |-> RunLogPending,
       repo_view |-> RepoViewOk,
       job_log |-> GhResult(1, <<>>, <<"LOG WILL BE AVAILABLE WHEN IT IS COMPLETE">>)],
      [metadata |-> Failed, run_log |-> RunLogPending,
       repo_view |-> Failed, job_log |-> Failed] }

\* What gh answers about the merge state, the reviews and the review threads
\* of a pull request.
MergeState(fields) ==
    GhResult(0, JsonDoc(fields @@ [baseRefName |-> <<"main">>, headRefName |-> <<"feature">>]),
             EmptyText)

Approval == [id |-> <<"101">>, state |-> <<"APPROVED">>, user |-> [login |-> <<"alice">>]]

ChangesRequest ==
    [id |-> <<"102">>, state |-> <<"CHANGES_REQUESTED">>, user |-> [login |-> <<"bob">>],
     body |-> <<"please fix">>, submitted_at |-> <<"2024-01-01T00:00:00Z">>]

Reviews(list) == GhResult(0, JsonDoc(JsonList(list)), EmptyText)

ResolvedThread ==
    [id |-> <<"T1">>, isResolved |-> TRUE, isOutdated |-> FALSE, path |-> <<"a.py">>,
     comments |-> [nodes |-> <<>>]]

OpenThread(id) ==
    [id |-> id, isResolved |-> FALSE, isOutdated |-> FALSE, path |-> <<"b.py">>,
     line |-> <<"12">>,
     comments |-> [nodes |-> << [author |-> [login |-> <<"bob">>], body |-> <<"why?">>] >>]]

Threads(nodes) ==
    GhResult(0, JsonDoc([data |-> [repository |-> [pullRequest |->
                            [reviewThreads |-> [nodes |-> nodes]]]]]), EmptyText)

ResolveOk ==
    GhResult(0, JsonDoc([data |-> [resolveReviewThread |->
                            [thread |-> [id |-> <<"T">>, isResolved |-> TRUE]]]]), EmptyText)

ResolveFailed == GhResult(1, EmptyText, <<"boom">>)

\* The pull requests a run may meet: clean; conflicting; changes requested
\* (listed by a gh that gives mergeable as a boolean); open review threads
\* while the merge state is still computed; every fetch failing; every answer
\* unparsable.
MainPrEnvs ==
    { [merge_state |-> MergeState([mergeable |-> JsonStr(<<"MERGEABLE">>),
                                   mergeStateStatus |-> <<"CLEAN">>]),
       repo_view |-> RepoViewOk,
       reviews |-> Reviews(<<Approval>>),
       threads |-> Threads(<<ResolvedThread>>),
       resolve |-> <<>>],
      [merge_state |-> MergeState([mergeable |-> JsonStr(<<"CONFLICTING">>),
                                   mergeStateStatus |-> <<"DIRTY">>]),
       repo_view |-> RepoViewOk,
       reviews |-> Reviews(<<>>),
       threads |-> Threads(<<>>),
       resolve |-> <<>>],
      [merge_state |-> MergeState([mergeable |-> JsonBool(TRUE),
                                   mergeStateStatus |-> <<"DIRTY">>]),
       repo_view |-> RepoViewOk,
       reviews |-> Reviews(<<Approval, ChangesRequest>>),
       threads |-> Threads(<<>>),
       resolve |-> <<>>],
      [merge_state |-> MergeState([mergeable |-> Null]),
       repo_view |-> RepoViewOk,
       reviews |-> Reviews(<<>>),
       threads |-> Threads(<<ResolvedThread, OpenThread(<<"T2">>), OpenThread(<<"T3">>)>>),
       resolve |-> <<ResolveOk, ResolveFailed>>],
      [merge_state |-> GhResult(1, EmptyText, <<"boom">>),
       repo_view |-> GhResult(1, EmptyText, <<"boom">>),
       reviews |-> GhResult(1, EmptyText, <<"boom">>),
       threads |-> GhResult(1, EmptyText, <<"boom">>),
       resolve |-> <<>>],
      [merge_state |-> GhResult(0, GarbageDoc, EmptyText),
       repo_view |-> RepoViewOk,
       reviews |-> GhResult(0, JsonDoc([message |-> <<"Not Found">>]), EmptyText),
       threads |-> GhResult(0, GarbageDoc, EmptyText),
       resolve |-> <<>>] }

\* The command lines of a run.
ArgSamples ==
    { [mode |-> "checks", max_lines |-> 0, context |-> 0, resolve_threads |-> FALSE],
      [mode |-> "all", max_lines |-> 2, context |-> 1, resolve_threads |-> TRUE],
      [mode |-> "conflicts", max_lines |-> 160, context |-> 30, resolve_threads |-> FALSE],
      [mode |-> "reviews", max_lines |-> 160, context |-> 30, resolve_threads |-> FALSE],
      [mode |-> "reviews", max_lines |-> 160, context |-> 30, resolve_threads |-> TRUE] }

\* The gh commands of a trace as events of sub-operation op for check or
\* thread k (0: for none).
CommandEvents(trace, k, op) ==
    [i \in DOMAIN trace |-> [ev |-> "gh", check |-> k, cmd |-> trace[i].cmd, op |-> op]]

\* The evaluations of is_failing by the comprehension of line 180.
ClassifyEvents(list) ==
    [k \in DOMAIN list |-> [ev |-> "is_failing", check |-> k, value |-> is_failing(list[k])]]

RECURSIVE positions_where(_, _)
positions_where(list, k) ==
    IF k > Len(list) THEN <<>>
    ELSE IF is_failing(list[k]) THEN <<k>> \o positions_where(list, k + 1)
    ELSE positions_where(list, k + 1)

failing_checks_all(list) == [k \in DOMAIN list |-> k]

\* line 180: [c for c in checks if is_failing(c)], as positions in checks.
failing_checks(list) == positions_where(list, 1)

\* lines 166-173: the loop over the unresolved threads; env.resolve[k] is what
\* gh answers to the mutation for thread k.  ret is resolved_count.
RECURSIVE resolve_threads_from(_, _, _)
resolve_threads_from(unresolved_threads, env, k) ==
    IF k > Len(unresolved_threads) THEN [ret |-> 0, events |-> <<>>]
    ELSE LET rest == resolve_threads_from(unresolved_threads, env, k + 1)
             thread_id == unresolved_threads[k].id
             call == Call("api graphql resolveReviewThread", <<thread_id>>, env.resolve[k])
         IN  IF ~Truthy(thread_id) THEN rest
             ELSE [ret |-> rest.ret + (IF resolve_thread(env.resolve[k]) THEN 1 ELSE 0),
                   events |-> CommandEvents(<<call>>, k, "resolve_thread") \o rest.events]

Init ==
    /\ pc = "main_conflicts"
    /\ args \in ArgSamples
    /\ checks = NotFetched
    /\ failing = <<>>
    /\ ci_results = <<>>
    /\ results = [pr |-> <<"12">>]
    /\ has_issues = FALSE
    /\ events = <<>>
    /\ exit_code = -1
    /\ gh_trace = <<>>
    /\ pr_env \in MainPrEnvs
    /\ IdleLog
    /\ IdleClassify
    /\ IdleFields
    /\ IdleSnippet

\* lines 149-153: the conflicts section.
MainConflicts ==
    /\ pc = "main_conflicts"
    /\ IF args.mode \in {"conflicts", "all"}
       THEN LET conflict_result == check_conflicts(pr_env.merge_state)
                call == Call("pr view", <<>>, pr_env.merge_state)
            IN  /\ results' = results @@ [conflicts |-> conflict_result]
                /\ has_issues' = (has_issues \/ conflict_flag(conflict_result))
                /\ events' = events \o CommandEvents(<<call>>, 0, "check_conflicts")
       ELSE UNCHANGED <<results, has_issues, events>>
    /\ pc' = "main_reviews"
    /\ UNCHANGED <<args, checks, failing, ci_results, exit_code, pr_env,
                   gh_trace, logVars, classifyVars, fieldVars, snippetVars>>

\* lines 156-174: the reviews section.
MainReviews ==
    /\ pc = "main_reviews"
    /\ IF args.mode \in {"reviews", "all"}
       THEN LET change_requests == fetch_change_requests(pr_env)
                unresolved_threads == fetch_unresolved_threads(pr_env)
                resolving == args.resolve_threads /\ unresolved_threads.ret # <<>>
                resolved == resolve_threads_from(unresolved_threads.ret, pr_env, 1)
            IN  /\ results' =
                       results
                       @@ [changeRequests |-> change_requests.ret,
                           unresolvedThreads |-> unresolved_threads.ret]
                       @@ (IF resolving THEN [resolvedThreadsCount |-> resolved.ret]
                           ELSE <<>>)
                /\ has_issues' = (has_issues \/ change_requests.ret # <<>>
                                              \/ unresolved_threads.ret # <<>>)
                /\ events' =
                       events
                       \o CommandEvents(change_requests.trace, 0, "fetch_change_requests")
                       \o CommandEvents(unresolved_threads.trace, 0,
                                        "fetch_unresolved_threads")
                       \o (IF resolving THEN resolved.events ELSE <<>>)
       ELSE UNCHANGED <<results, has_issues, events>>
    /\ pc' = "main_fetch"
    /\ UNCHANGED <<args, checks, failing, ci_results, exit_code, pr_env,
                   gh_trace, logVars, classifyVars, fieldVars, snippetVars>>

\* lines 177-178: checks = fetch_checks(pr_value, repo_root)
MainFetchChecks ==
    /\ pc = "main_fetch"
    /\ IF args.mode \in {"checks", "all"}
       THEN /\ \E env \in MainListingEnvs :
                 LET r == fetch_checks(env)
                 IN  /\ checks' = r.ret
                     /\ events' = events \o CommandEvents(r.trace, 0, "fetch_checks")
                     /\ gh_trace' = r.trace
                     /\ offer' = env.offer
            /\ pc' = "main_classify"
       ELSE /\ pc' = "main_output"
            /\ UNCHANGED <<checks, events, gh_trace, offer>>
    /\ UNCHANGED <<args, failing, ci_results, results, has_issues, exit_code, pr_env,
                   checks_ret, logVars, classifyVars, snippetVars>>

\* lines 179-183 and 194-198: classify; report when there is nothing to analyze.
MainClassify ==
    /\ pc = "main_classify"
    /\ IF checks # Null
       THEN /\ failing' = failing_checks(checks.list)
            /\ events' = events \o ClassifyEvents(checks.list)
            /\ IF failing' # <<>>
               THEN /\ has_issues' = TRUE
                    /\ pc' = "main_analyze"
                    /\ UNCHANGED results
               ELSE /\ results' = results @@ [ciFailures |-> JsonList(<<>>)]
                    /\ pc' = "main_output"
                    /\ UNCHANGED has_issues
       ELSE /\ results' = results @@ [ciFailures |-> Null,
                                      ciError |-> <<"Failed to fetch CI checks">>]
            /\ pc' = "main_output"
            /\ UNCHANGED <<failing, events, has_issues>>
    /\ UNCHANGED <<args, checks, ci_results, exit_code, pr_env,
                   gh_trace, logVars, classifyVars, fieldVars, snippetVars>>

\* lines 184-193: one turn of the loop over failing; the report after the last.
MainAnalyze ==
    /\ pc = "main_analyze"
    /\ LET k == failing[Len(ci_results) + 1]
       IN  \E env \in MainAnalyzeEnvs :
             LET r == analyze_check(checks.list[k], env,
                                    Max(1, args.max_lines), Max(1, args.context))
             IN  /\ ci_results' = Append(ci_results, r.ret)
                 /\ events' = events \o CommandEvents(r.trace, k, "analyze_check")
    /\ IF Len(ci_results') = Len(failing)
       THEN /\ results' = results @@ [ciFailures |-> JsonList(ci_results')]
            /\ pc' = "main_output"
       ELSE UNCHANGED <<results, pc>>
    /\ UNCHANGED <<args, checks, failing, has_issues, exit_code, pr_env,
                   gh_trace, logVars, classifyVars, fieldVars, snippetVars>>

\* lines 200-206: print the report and return the exit code.
MainReturn ==
    /\ pc = "main_output"
    /\ exit_code' = IF has_issues THEN 1 ELSE 0
    /\ pc' = "main_done"
    /\ UNCHANGED <<args, checks, failing, ci_results, results, has_issues, events, pr_env,
                   gh_trace, logVars, classifyVars, fieldVars, snippetVars>>

Next ==
    \/ MainConflicts
    \/ MainReviews
    \/ MainFetchChecks
    \/ MainClassify
    \/ MainAnalyze
    \/ MainReturn

Spec == Init /\ [][Next]_vars

(***************************************************************************)
(* Log Resolver: properties, checked under SpecLog.                        *)
(***************************************************************************)
LogDone == pc = "log_done"

\* The result of the run-level log command (always the first command issued).
RunLogAnswer == gh_trace[1].result

\* The reason the run-level failure carries: stderr, else stdout, trimmed,
\* else the fixed message.
RunLevelReason ==
    LET raw == IF RunLogAnswer.stderr # EmptyText THEN RunLogAnswer.stderr
               ELSE RunLogAnswer.stdout
    IN  IF Strip(raw) # EmptyText THEN Strip(raw) ELSE <<"gh run view failed">>

MatchesPendingSignature(text) ==
    \E i \in DOMAIN text : LowerChunk(text[i]) \in PENDING_LOG_MARKERS

RunLevelPending ==
    RunLogAnswer.returncode # 0 /\ MatchesPendingSignature(RunLevelReason)

\* fetch_job_log was entered: its first command, or the log endpoint, was issued.
JobFetchAttempted ==
    \E i \in DOMAIN gh_trace : gh_trace[i].cmd \in {"repo view", "api job logs"}

JobEndpointCalled == \E i \in DOMAIN gh_trace : gh_trace[i].cmd = "api job logs"

JobLogAnswer == gh_trace[Len(gh_trace)].result

\* The reason a failed job-level command carries.
JobLevelReason ==
    LET raw == IF JobLogAnswer.stderr # EmptyText THEN JobLogAnswer.stderr
               ELSE Decode(JobLogAnswer.stdout)
    IN  IF Strip(raw) # EmptyText THEN Strip(raw) ELSE <<"gh api job logs failed">>

JobPayloadIsZip ==
    /\ Len(JobLogAnswer.stdout) >= 2
    /\ SubSeq(JobLogAnswer.stdout, 1, 2) = <<"P", "K">>

\* C1: when the run-level log command exits with code zero, the outcome is Ok
\* carrying exactly the run-level output text, and the job-level log fetch is
\* not attempted, whether or not a job id is present.
C1_RunSuccessIsOk ==
    (LogDone /\ RunLogAnswer.returncode = 0) =>
        /\ log_result = <<RunLogAnswer.stdout, EmptyText, "ok">>
        /\ ~JobFetchAttempted

C1_Witness ==
    /\ LogDone
    /\ RunLogAnswer.returncode = 0
    /\ job_id # None
    /\ RunLogAnswer.stdout = <<" ", "Boom", "\n">>
    /\ log_result[3] = "ok"

\* C2: when the run-level log command fails with error text that matches no
\* pending-log signature, the outcome is Error carrying the run-level reason,
\* and the job-level log fetch is not attempted, with or without a job id.
C2_RunHardFailureIsError ==
    (LogDone /\ RunLogAnswer.returncode # 0 /\ ~MatchesPendingSignature(RunLevelReason)) =>
        /\ log_result = <<EmptyText, RunLevelReason, "error">>
        /\ ~JobFetchAttempted

C2_Witness ==
    /\ LogDone
    /\ RunLogAnswer.returncode # 0
    /\ ~MatchesPendingSignature(RunLevelReason)
    /\ job_id # None
    /\ log_result[3] = "error"

\* C3 as stated: run-level pending failure, a job id present, and the job-level
\* fetch succeeding with a payload that is not a zip archive give Ok carrying
\* the job-level log text.
C3_Original ==
    (/\ LogDone
     /\ RunLevelPending
     /\ job_id # None
     /\ JobEndpointCalled
     /\ JobLogAnswer.returncode = 0
     /\ ~JobPayloadIsZip) =>
        log_result = <<Decode(JobLogAnswer.stdout), EmptyText, "ok">>

\* C3 amended: the same, for a payload that is not empty and not a zip archive.
C3_JobSuccessIsOk ==
    (/\ LogDone
     /\ RunLevelPending
     /\ job_id # None
     /\ JobEndpointCalled
     /\ JobLogAnswer.returncode = 0
     /\ JobLogAnswer.stdout # <<>>
     /\ ~JobPayloadIsZip) =>
        log_result = <<Decode(JobLogAnswer.stdout), EmptyText, "ok">>

C3_Witness ==
    /\ LogDone
    /\ RunLevelPending
    /\ job_id # None
    /\ JobEndpointCalled
    /\ JobLogAnswer.returncode = 0
    /\ JobLogAnswer.stdout = <<"P">>
    /\ log_result[3] = "ok"

\* C4: run-level pending failure, a job id present, and the job-level fetch
\* succeeding with a payload whose first two bytes are PK give Error (not Ok,
\* not Pending) with a reason that mentions the zip archive.
C4_ZipIsError ==
    (/\ LogDone
     /\ RunLevelPending
     /\ job_id # None
     /\ JobEndpointCalled
     /\ JobLogAnswer.returncode = 0
     /\ JobPayloadIsZip) =>
        /\ log_result[3] = "error"
        /\ log_result[1] = EmptyText
        /\ \E i \in DOMAIN log_result[2] : log_result[2][i] = "zip archive"

C4_Witness ==
    /\ LogDone
    /\ RunLevelPending
    /\ job_id # None
    /\ JobEndpointCalled
    /\ JobLogAnswer.returncode = 0
    /\ JobPayloadIsZip
    /\ log_result[3] = "error"

\* C5: after a run-level pending failure with a job id present, a failed
\* job-level fetch gives Pending carrying the job-level reason when that reason
\* matches a pending-log signature, and Error carrying it otherwise.
C5_JobFailure ==
    /\ (/\ LogDone
        /\ RunLevelPending
        /\ job_id # None
        /\ JobEndpointCalled
        /\ JobLogAnswer.returncode # 0) =>
           log_result = <<EmptyText, JobLevelReason,
                          IF MatchesPendingSignature(JobLevelReason)
                          THEN "pending" ELSE "error">>
    \* the repository name could not be resolved: the endpoint is never asked
    /\ (LogDone /\ JobFetchAttempted /\ ~JobEndpointCalled) =>
           log_result =
               <<EmptyText,
                 <<"Error: unable to resolve repository name for job logs.">>,
                 "error">>

C5_Witness ==
    /\ LogDone
    /\ RunLevelPending
    /\ job_id # None
    /\ JobEndpointCalled
    /\ JobLogAnswer.returncode # 0
    /\ JobLogAnswer.stderr = EmptyText
    /\ MatchesPendingSignature(JobLevelReason)
    /\ JobLevelReason # RunLevelReason
    /\ log_result[3] = "pending"

\* C6: when the run-level log command fails with a pending-signature error and
\* no job id is available, the outcome is Pending carrying the run-level
\* reason, and no job-level fetch is attempted.
C6_PendingWithoutJob ==
    (LogDone /\ RunLevelPending /\ job_id = None) =>
        /\ log_result = <<EmptyText, RunLevelReason, "pending">>
        /\ ~JobFetchAttempted

C6_Witness ==
    /\ LogDone
    /\ RunLevelPending
    /\ job_id = None
    /\ log_result[3] = "pending"

\* C8: every result of fetch_check_log carries one outcome tag, ok, pending or
\* error; ok has no reason; pending and error have no log text and a reason
\* that is not empty; no result has both log text and a reason.
C8_OneOutcomeTag ==
    LogDone =>
        /\ log_result[3] \in {"ok", "pending", "error"}
        /\ log_result[3] = "ok" => log_result[2] = EmptyText
        /\ log_result[3] \in {"pending", "error"} =>
               (log_result[1] = EmptyText /\ log_result[2] # EmptyText)
        /\ ~(log_result[1] # EmptyText /\ log_result[2] # EmptyText)

\* The job fetch succeeded with an empty payload: the fallback of line 678.
C8_Witness ==
    /\ LogDone
    /\ JobEndpointCalled
    /\ JobLogAnswer.returncode = 0
    /\ JobLogAnswer.stdout = <<>>
    /\ log_result[3] = "pending"
    /\ log_result[2] = RunLevelReason

(***************************************************************************)
(* Check Classifier: properties, checked under SpecClassify.               *)
(***************************************************************************)
Classified == pc = "classify_done"

\* A field's value, None when the key is missing or null.
Field(key) == IF key \in DOMAIN check THEN check[key] ELSE None

\* Trimmed and lowercased; an absent field is the empty text.
Normalized(v) ==
    IF v = None THEN EmptyText
    ELSE LET inked == { i \in DOMAIN v : v[i] \notin {" ", "\n"} }
             core == { i \in DOMAIN v :
                         /\ \E j \in inked : j <= i
                         /\ \E j \in inked : j >= i }
             first == CHOOSE i \in core : \A j \in core : i <= j
         IN  IF inked = {} THEN EmptyText
             ELSE [i \in 1..Cardinality(core) |-> LowerChunk(v[first + i - 1])]

ConclusionFails ==
    Normalized(Field("conclusion")) \in
        {<<"failure">>, <<"cancelled">>, <<"timed_out">>, <<"action_required">>}

StateFails(v) ==
    Normalized(v) \in
        {<<"failure">>, <<"error">>, <<"cancelled">>, <<"timed_out">>,
         <<"action_required">>}

BucketFails == Normalized(Field("bucket")) = <<"fail">>

\* C9 as stated: is_failing is true iff the normalized conclusion is a failure
\* conclusion, or the normalized state (status when state is absent) is a
\* failure state, or the normalized bucket is fail.
C9_Original ==
    Classified =>
        (verdict <=>
            \/ ConclusionFails
            \/ StateFails(IF Field("state") = None THEN Field("status")
                          ELSE Field("state"))
            \/ BucketFails)

\* C9 amended: status is consulted when state is absent, null or the empty
\* string; the three tests OR-ed give the result of the short-circuit code.
C9_IsFailingIffAnyTest ==
    Classified =>
        (verdict <=>
            \/ ConclusionFails
            \/ StateFails(IF Field("state") \in {None, EmptyText} THEN Field("status")
                          ELSE Field("state"))
            \/ BucketFails)

C9_Witness ==
    /\ Classified
    /\ "state" \in DOMAIN check /\ check["state"] = EmptyText
    /\ "status" \in DOMAIN check /\ check["status"] = <<" ", "Failure", "\n">>
    /\ ~ConclusionFails
    /\ ~BucketFails
    /\ verdict = TRUE

(***************************************************************************)
(* Schema Negotiator: properties, checked under SpecFields.                *)
(***************************************************************************)
FieldsDone == pc = "fields_done"

PrimaryFailedWithMarker ==
    /\ offer.marker
    /\ gh_trace[1].result.returncode # 0

Retried == Len(gh_trace) = 2

FallbackOrder ==
    << <<"name">>, <<"state">>, <<"bucket">>, <<"link">>,
       <<"startedAt">>, <<"completedAt">>, <<"workflow">> >>

FallbackIndex(field) == CHOOSE i \in DOMAIN FallbackOrder : FallbackOrder[i] = field

\* C10: when the primary listing fails and its error output holds the
\* "Available fields:" marker, the field list of the retried request is the
\* intersection of the fallback list with the advertised fields, in the order
\* of the fallback list whatever the order of the advertisement.
C10_RetryFieldsAreOrderedIntersection ==
    (FieldsDone /\ PrimaryFailedWithMarker /\ Retried) =>
        LET asked == gh_trace[2].args
        IN  /\ Range(asked) = Range(FallbackOrder) \cap Range(offer.fields)
            /\ \A i, j \in DOMAIN asked :
                   i < j => FallbackIndex(asked[i]) < FallbackIndex(asked[j])

C10_Witness ==
    /\ FieldsDone
    /\ PrimaryFailedWithMarker
    /\ Retried
    /\ offer.fields = << <<"link">>, <<"event">>, <<"name">> >>
    /\ gh_trace[2].args = << <<"name">>, <<"link">> >>

(***************************************************************************)
(* main: properties, checked under Spec.                                   *)
(***************************************************************************)
\* The gh commands of log resolution: run metadata, run log, job log.
LogResolutionCommands == {"run view --json", "run view --log", "repo view", "api job logs"}

IsLogResolution(e) ==
    e.ev = "gh" /\ e.op = "analyze_check" /\ e.cmd \in LogResolutionCommands

\* Check k was classified as failing at some event before position p.
ClassifiedFailingBefore(k, p) ==
    \E q \in 1..(p - 1) :
        /\ events[q].ev = "is_failing"
        /\ events[q].check = k
        /\ events[q].value = TRUE

\* The positions of the checks that is_failing classified as failing, in order.
RECURSIVE ClassifiedFailing(_)
ClassifiedFailing(p) ==
    IF p > Len(events) THEN <<>>
    ELSE IF events[p].ev = "is_failing" /\ events[p].value = TRUE
    THEN <<events[p].check>> \o ClassifiedFailing(p + 1)
    ELSE ClassifiedFailing(p + 1)

Reported == results.ciFailures.list

\* C7: a check is classified by is_failing before any log resolution for it,
\* log resolution is attempted only for checks classified as failing, and the
\* reported CI failures are exactly the checks classified as failing, whatever
\* the outcome of their log resolution.
C7_ClassifyThenResolve ==
    /\ \A p \in DOMAIN events :
           IsLogResolution(events[p]) => ClassifiedFailingBefore(events[p].check, p)
    /\ (pc \in {"main_output", "main_done"} /\ checks # Null /\ checks # NotFetched) =>
           LET classified == ClassifiedFailing(1)
           IN  /\ Len(Reported) = Len(classified)
               /\ \A i \in DOMAIN Reported :
                      LET c == checks.list[classified[i]]
                      IN  /\ Reported[i].name = c.name
                          /\ Reported[i].detailsUrl \in
                                 { c[key] : key \in DOMAIN c \cap {"detailsUrl", "link"} }

\* A passing and a failing check; the failing one's log could not be fetched.
C7_Witness ==
    /\ pc = "main_done"
    /\ checks # NotFetched
    /\ checks # Null
    /\ Len(checks.list) = 2
    /\ ClassifiedFailing(1) = <<2>>
    /\ Len(Reported) = 1
    /\ Reported[1].status = "log_unavailable"
    /\ \E p \in DOMAIN events : IsLogResolution(events[p]) /\ events[p].check = 2

(***************************************************************************)
(* main: a failed check fetch, checked under Spec.                         *)
(***************************************************************************)
MainFetched == pc \notin {"main_fetch"} /\ gh_trace # <<>>

PrimaryListingFailed == gh_trace[1].result.returncode # 0

MarkerAbsent == ~offer.marker

IntersectionEmpty ==
    \A i \in DOMAIN offer.fields : offer.fields[i] \notin Range(fallback_fields)

RetryFailed == Len(gh_trace) = 2 /\ gh_trace[2].result.returncode # 0

CheckFetchFails ==
    /\ MainFetched
    /\ PrimaryListingFailed
    /\ MarkerAbsent \/ IntersectionEmpty \/ RetryFailed

MainReported == pc \in {"main_output", "main_done"}

NoCheckIsFailing ==
    /\ MainFetched
    /\ checks # Null
    /\ \A k \in DOMAIN checks.list : ~is_failing(checks.list[k])

\* C11: when the primary listing fails and the marker is absent, or no
\* advertised field is in the fallback list, or the retried listing fails too,
\* the check fetch fails; the run then reports ciFailures as null with a
\* ciError and attempts no log resolution, while a run without failing checks
\* reports ciFailures as an empty list and no ciError.
C11_FailedFetchIsReportedUnavailable ==
    /\ CheckFetchFails =>
           /\ checks = Null
           /\ \A p \in DOMAIN events : ~IsLogResolution(events[p])
           /\ MainReported =>
                  /\ results.ciFailures = Null
                  /\ "ciError" \in DOMAIN results
                  /\ Truthy(results.ciError)
    /\ (MainReported /\ NoCheckIsFailing) =>
           /\ results.ciFailures = JsonList(<<>>)
           /\ "ciError" \notin DOMAIN results

\* The listing failed and advertised no field of the fallback list; the run
\* ended with the checks reported as unavailable.
C11_Witness ==
    /\ pc = "main_done"
    /\ CheckFetchFails
    /\ ~MarkerAbsent
    /\ offer.fields # <<>>
    /\ IntersectionEmpty
    /\ results.ciFailures = Null
    /\ "ciError" \in DOMAIN results

(***************************************************************************)
(* Snippet Extractor: properties, checked under SpecSnippet.               *)
(***************************************************************************)
SnippetDone == pc = "snippet_done"

MaxLinesUsed == IF snippet_args.max_lines >= 1 THEN snippet_args.max_lines ELSE 1

ContextUsed == IF snippet_args.context >= 1 THEN snippet_args.context ELSE 1

LogLines == SplitLines(snippet_log)

\* The line holds a failure marker, in any letter case.
HoldsMarker(line) ==
    \E k \in DOMAIN line : \E marker \in FAILURE_MARKERS : Contains(<<LowerChunk(line[k])>>, marker)

\* The 0-based indices of the lines holding a marker.
MarkerIndices == { i \in 0..(Len(LogLines) - 1) : HoldsMarker(LogLines[i + 1]) }

LastMarkerIndex == CHOOSE i \in MarkerIndices : \A j \in MarkerIndices : j <= i

\* The lines lo, ..., hi - 1 (0-based) of a list, in their order.
LinesBetween(lines, lo, hi) == [k \in 1..(IF hi > lo THEN hi - lo ELSE 0) |-> lines[lo + k]]

FinalLines(lines, n) ==
    LinesBetween(lines, IF Len(lines) > n THEN Len(lines) - n ELSE 0, Len(lines))

WindowLo == IF LastMarkerIndex > ContextUsed THEN LastMarkerIndex - ContextUsed ELSE 0

WindowHi ==
    IF LastMarkerIndex + ContextUsed < Len(LogLines)
    THEN LastMarkerIndex + ContextUsed ELSE Len(LogLines)

ReferenceLines ==
    IF LogLines = <<>> THEN <<>>
    ELSE IF MarkerIndices = {} THEN FinalLines(LogLines, MaxLinesUsed)
    ELSE LET window == LinesBetween(LogLines, WindowLo, WindowHi)
         IN  IF Len(window) > MaxLinesUsed THEN FinalLines(window, MaxLinesUsed)
             ELSE window

\* The lines put together with a line end between neighbours.
RECURSIVE Joined(_)
Joined(lines) ==
    IF lines = <<>> THEN EmptyText
    ELSE IF Len(lines) = 1 THEN lines[1]
    ELSE Joined(SubSeq(lines, 1, Len(lines) - 1)) \o <<"\n">> \o lines[Len(lines)]

\* C12: for every log and limits of at least 1, the snippet is empty for an
\* empty log, the last max_lines lines when no line holds a marker, and
\* otherwise the window [max(0, i - context), min(len, i + context)) around the
\* last marker line i, cut down to its own final max_lines lines when longer.
C12_SnippetEqualsReference ==
    SnippetDone => snippet = Joined(ReferenceLines)

\* A window of four lines around the marker, cut down to its final two.
C12_Witness ==
    /\ SnippetDone
    /\ Len(LogLines) = 4
    /\ MarkerIndices = {1}
    /\ WindowHi - WindowLo = 4
    /\ MaxLinesUsed = 2
    /\ snippet = Joined(LinesBetween(LogLines, 2, 4))

\* The snippet is a run of neighbouring lines of the log that covers line i.
SnippetCoversLine(i) ==
    \E lo \in 0..i : \E hi \in (i + 1)..Len(LogLines) :
        snippet = Joined(LinesBetween(LogLines, lo, hi))

\* C16: for every log with a marker line and limits of at least 1, the snippet
\* includes the last marker line of the log, also when the window is cut down
\* to max_lines lines.
C16_SnippetIncludesMarkerLine ==
    (SnippetDone /\ MarkerIndices # {}) => SnippetCoversLine(LastMarkerIndex)

(***************************************************************************)
(* analyze_check: the identifiers of an analyzed check, checked under Spec. *)
(***************************************************************************)
\* C14: in every analyzed check, a job id is present only if a run id is
\* present.
C14_JobIdOnlyWithRunId ==
    \A i \in DOMAIN ci_results :
        ci_results[i].jobId # None => ci_results[i].runId # None

(***************************************************************************)
(* main: the exit code and the commands of a run, checked under Spec.      *)
(***************************************************************************)
MainDone == pc = "main_done"

InspectsConflicts == args.mode \in {"conflicts", "all"}
InspectsReviews == args.mode \in {"reviews", "all"}
InspectsChecks == args.mode \in {"checks", "all"}

ConflictReported == InspectsConflicts /\ results.conflicts.hasConflicts

ChangeRequestsListed == InspectsReviews /\ Len(results.changeRequests) > 0

UnresolvedThreadsListed == InspectsReviews /\ Len(results.unresolvedThreads) > 0

SomeCheckClassifiedFailing ==
    InspectsChecks /\ \E p \in DOMAIN events : events[p].ev = "is_failing" /\ events[p].value

IssueFound ==
    \/ ConflictReported
    \/ ChangeRequestsListed
    \/ UnresolvedThreadsListed
    \/ SomeCheckClassifiedFailing

\* C13: a run that reaches the inspection ends with exit code 1 if and only
\* if, in the sections its mode inspects, a conflict is reported, or a change
\* request or an unresolved thread is listed, or a check is classified as
\* failing; otherwise it ends with exit code 0.
C13_ExitCodeIffIssue ==
    MainDone => exit_code = (IF IssueFound THEN 1 ELSE 0)

\* Mode all with open review threads as the only issue, one of them resolved
\* by the run.
C13_Witness ==
    /\ MainDone
    /\ args.mode = "all"
    /\ exit_code = 1
    /\ UnresolvedThreadsListed
    /\ results.resolvedThreadsCount = 1
    /\ ~ConflictReported
    /\ ~ChangeRequestsListed
    /\ ~SomeCheckClassifiedFailing
    /\ results.ciFailures = JsonList(<<>>)

IsCommand(p) == events[p].ev = "gh"

\* Two events are the same command of the same sub-operation.
SameCommand(p, q) ==
    /\ IsCommand(p)
    /\ IsCommand(q)
    /\ events[p].op = events[q].op
    /\ events[p].check = events[q].check
    /\ events[p].cmd = events[q].cmd

Invocations(op, k, cmd) ==
    { p \in DOMAIN events :
        IsCommand(p) /\ events[p].op = op /\ events[p].check = k /\ events[p].cmd = cmd }

\* C15: the check listing is invoked at most twice, the second time only
\* after the first failed and with the negotiated fields; for each check the
\* run log command and the job log endpoint are invoked at most once each; no
\* other command is invoked twice by its sub-operation.
C15_RetriesOnlyByFallback ==
    /\ Cardinality(Invocations("fetch_checks", 0, "pr checks")) <= 2
    /\ Len(gh_trace) = 2 =>
           /\ gh_trace[1].result.returncode # 0
           /\ gh_trace[1].args = primary_fields
           /\ gh_trace[2].args # primary_fields
           /\ Range(gh_trace[2].args) \subseteq Range(offer.fields)
    /\ \A k \in 1..Len(failing) :
           /\ Cardinality(Invocations("analyze_check", failing[k], "run view --log")) <= 1
           /\ Cardinality(Invocations("analyze_check", failing[k], "api job logs")) <= 1
    /\ \A p, q \in DOMAIN events :
           (p < q /\ SameCommand(p, q)) => events[p].cmd = "pr checks"

\* The listing was retried with the negotiated fields, and for a failing
\* check the run log and then the job log were asked for, once each.
C15_Witness ==
    /\ MainDone
    /\ args.mode = "checks"
    /\ Cardinality(Invocations("fetch_checks", 0, "pr checks")) = 2
    /\ gh_trace[2].result.returncode = 0
    /\ \E k \in 1..Len(failing) :
           /\ Cardinality(Invocations("analyze_check", failing[k], "run view --log")) = 1
           /\ Cardinality(Invocations("analyze_check", failing[k], "api job logs")) = 1

====
